---- MODULE Spec2Model ----
(***************************************************************************)
(* The workflow engine of domain/workflows/definitions.py: one             *)
(* WorkflowInstance driven by apply_command, save_checkpoint, rollback and *)
(* rollforward against a frozen WorkflowDefinition.                        *)
(*                                                                         *)
(* Python dicts are objects: `heap` maps a reference to the dict it holds, *)
(* the instance's `data` and every Checkpoint.data are references, and     *)
(* copy.deepcopy allocates a new reference.  Indices are 0-based as in the *)
(* source (At).  datetime.utcnow() is a clock that never runs backwards:   *)
(* between two saved checkpoints it has advanced (Elapsed) or not.         *)
(***************************************************************************)
EXTENDS Integers, Sequences, FiniteSets, TLC

VARIABLES
    definition,            \* WorkflowInstance.definition
    current_step,          \* WorkflowInstance.current_step
    data,                  \* WorkflowInstance.data (a reference into heap)
    heap,                  \* the dicts: heap[ref] is the dict held at ref
    history,               \* WorkflowInstance.history
    checkpoints,           \* WorkflowInstance.checkpoints (insertion order)
    active_checkpoint_id,  \* WorkflowInstance.active_checkpoint_id
    clock,                 \* what datetime.utcnow() returns
    call,                  \* the last call: operation, arguments, outcome
    pre,                   \* the instance as it was when the last call began
    saved_at,              \* per checkpoint, the step and data when it was saved
    trail,                 \* what happened since the last save / rollback
    agenda_items,          \* the rows of AgendaItem
    action_items,          \* the rows of ActionItem
    external_requests,     \* the rows of ExternalRequest
    minutes,               \* the rows of Minute
    attendance_records     \* the rows of AttendanceRecord

\* The tables of the application's models.
tables == <<agenda_items, action_items, external_requests, minutes,
            attendance_records>>

vars == <<definition, current_step, data, heap, history, checkpoints,
          active_checkpoint_id, clock, call, pre, saved_at, trail, tables>>

-----------------------------------------------------------------------------
(* Bounds *)

MaxHistory == 5
MaxTransitions == 2

-----------------------------------------------------------------------------
(* Values *)

None == 0

EmptyDict == [k \in {} |-> ""]

At(seq, i) == seq[i + 1]

Actor(name) == [name |-> name]

Transition(from_step, to_step, command, guard) ==
    [from_step |-> from_step, to_step |-> to_step, command |-> command,
     guard |-> guard]

NoGuard == "None"

Checkpoint(id, label, step, data_ref, created_at) ==
    [id |-> id, label |-> label, step |-> step, data |-> data_ref,
     created_at |-> created_at]

WorkflowDefinition(name, initial_step, steps, transitions) ==
    [name |-> name, initial_step |-> initial_step, steps |-> steps,
     transitions |-> transitions]

CommandApplied(from_step, to_step, command, actor, payload, timestamp) ==
    [type |-> "CommandApplied", timestamp |-> timestamp,
     from_step |-> from_step, to_step |-> to_step, command |-> command,
     actor |-> actor, payload |-> payload]

CheckpointSaved(checkpoint, actor, timestamp) ==
    [type |-> "CheckpointSaved", timestamp |-> timestamp,
     checkpoint |-> checkpoint, actor |-> actor]

\* The event carries the id before the one restored.
StateRestored_previous_id(checkpoint_id, actor, direction, timestamp) ==
    [type |-> "StateRestored", timestamp |-> timestamp,
     checkpoint_id |-> checkpoint_id - 1, actor |-> actor,
     direction |-> direction]

StateRestored(checkpoint_id, actor, direction, timestamp) ==
    [type |-> "StateRestored", timestamp |-> timestamp,
     checkpoint_id |-> checkpoint_id, actor |-> actor,
     direction |-> direction]

-----------------------------------------------------------------------------
(* The definitions and the inputs the calls are drawn from *)

TEST_FLOW ==
    WorkflowDefinition("test definition", "initial request",
        {"initial_request", "triage", "completed"},
        << Transition("initial_request", "triage", "start_triage", NoGuard),
           Transition("triage", "completed", "complete", NoGuard) >>)

\* A definition with a guarded transition and a second transition declared
\* for the same (from_step, command).
REVIEW_FLOW ==
    WorkflowDefinition("review definition", "initial_request",
        {"initial_request", "triage", "completed"},
        << Transition("initial_request", "triage", "start_triage", NoGuard),
           Transition("triage", "completed", "complete", "actor_is_alice"),
           Transition("triage", "initial_request", "complete", NoGuard) >>)

\* A definition with a transition whose to_step is not among its steps.
ARCHIVE_FLOW ==
    WorkflowDefinition("archive definition", "initial_request",
        {"initial_request", "triage"},
        << Transition("initial_request", "triage", "start_triage", NoGuard),
           Transition("triage", "archived", "complete", NoGuard) >>)

\* The instances as constructed: (definition, current_step, data).
Instances ==
    { <<TEST_FLOW, "initial_request", [requester |-> "Colin Requester"]>>,
      <<REVIEW_FLOW, REVIEW_FLOW.initial_step, EmptyDict>>,
      <<ARCHIVE_FLOW, ARCHIVE_FLOW.initial_step, EmptyDict>> }

Actors == { Actor("alice"), Actor("bob") }

\* Who saves and restores: the engine only records this actor in the event.
CheckpointActors == { Actor("bob") }

Commands == { "start_triage", "complete", "disallowed_command" }

Payloads ==
    { [notes |-> "n1"],
      [notes |-> "n2", notes_on_completion |-> "done"] }

Labels == { "CP" }

\* How far datetime.utcnow() has moved on when save_checkpoint reads it.
Elapsed == { 0, 1 }

\* A guard is a callable of (instance, payload, actor); the engine never
\* looks inside it.  The guards the definitions above carry:
guard_result(guard, instance, payload, actor) ==
    CASE guard = NoGuard -> TRUE
      [] guard = "actor_is_alice" -> actor.name = "alice"
      [] OTHER -> TRUE

-----------------------------------------------------------------------------
(* WorkflowDefinition.find_transition: the first match in declaration order *)

RECURSIVE find_from(_, _, _, _)
find_from(transitions, i, step, command) ==
    IF i > Len(transitions) THEN None
    ELSE IF transitions[i].from_step = step /\ transitions[i].command = command
         THEN i
         ELSE find_from(transitions, i + 1, step, command)

\* The last match in declaration order.
find_transition_last_match(def, step, command) ==
    LET hits == { i \in 1..Len(def.transitions) :
                    /\ def.transitions[i].from_step = step
                    /\ def.transitions[i].command = command }
    IN  IF hits = {} THEN None
        ELSE CHOOSE i \in hits : \A j \in hits : i >= j

\* Matches on the command alone.
find_transition_any_step(def, step, command) ==
    LET hits == { i \in 1..Len(def.transitions) :
                    def.transitions[i].command = command }
    IN  IF hits = {} THEN None
        ELSE CHOOSE i \in hits : \A j \in hits : i <= j

\* The index (from 1) of the matching transition, None when there is none.
find_transition(def, step, command) ==
    find_from(def.transitions, 1, step, command)

-----------------------------------------------------------------------------
(* WorkflowDefinition.is_valid: True, or WorkflowDefinitionValidationError *)

Valid == [result |-> "True", message |-> ""]

Invalid(message) ==
    [result |-> "WorkflowDefinitionValidationError", message |-> message]

\* The membership of initial_step is not checked.
is_valid_without_initial_step(def) ==
    IF def.transitions = << >>
    THEN Invalid("A definition requires a list of Transition objects.")
    ELSE IF def.steps = {}
    THEN Invalid("A definition requires a list of steps.")
    ELSE Valid

is_valid(def) ==
    IF def.transitions = << >>
    THEN Invalid("A definition requires a list of Transition objects.")
    ELSE IF def.steps = {}
    THEN Invalid("A definition requires a list of steps.")
    ELSE IF def.initial_step \notin def.steps
    THEN Invalid("The initial_step must existing in the list of steps.")
    ELSE Valid

-----------------------------------------------------------------------------
(* Bookkeeping of a call *)

Snapshot ==
    [current_step |-> current_step, data |-> data, heap |-> heap,
     history |-> history, checkpoints |-> checkpoints,
     active_checkpoint_id |-> active_checkpoint_id, trail |-> trail]

\* What is kept of a call.  A call that raised is kept by its operation, its
\* command and the exception alone (Raised): it changed nothing.
Call(op, command, payload, actor, label, ret) ==
    [op |-> op, command |-> command, payload |-> payload, actor |-> actor,
     label |-> label, result |-> "ok", message |-> "", ret |-> ret]

Raised(op, command, exception, message) ==
    [op |-> op, command |-> command, payload |-> EmptyDict,
     actor |-> Actor(""), label |-> "", result |-> exception,
     message |-> message, ret |-> None]

NoTrail == [saved |-> FALSE, applied |-> 0, rolled_back |-> FALSE,
            since_rollback |-> FALSE,
            step |-> "", data |-> EmptyDict, active |-> None]

-----------------------------------------------------------------------------
(* WorkflowInstance.apply_command *)

\* dict.update: the payload's value wins.
dict_update_keep_existing(d, payload) ==
    [k \in DOMAIN d \cup DOMAIN payload |->
        IF k \in DOMAIN d THEN d[k] ELSE payload[k]]

dict_update(d, payload) ==
    [k \in DOMAIN d \cup DOMAIN payload |->
        IF k \in DOMAIN payload THEN payload[k] ELSE d[k]]

\* The raise of lines 202-205, reached after the data were already merged.
apply_command_rejected_late(command, payload, actor) ==
    /\ heap' = [heap EXCEPT ![data] = dict_update(heap[data], payload)]
    /\ call' = Raised("apply_command", command, "DomainException",
                      "Invalid command for step")
    /\ UNCHANGED <<current_step, data, history, checkpoints,
                   active_checkpoint_id>>

\* No transition: DomainException, before anything is touched.
apply_command_rejected(command, payload, actor) ==
    /\ call' = Raised("apply_command", command, "DomainException",
                      "Invalid command for step")
    /\ UNCHANGED <<current_step, data, heap, history, checkpoints,
                   active_checkpoint_id>>

\* from_step read after current_step was assigned.
event_from_step_late(transition) == transition.to_step

\* from_step = self.current_step, read before the assignment.
event_from_step(transition) == current_step

active_after_command_kept == active_checkpoint_id

\* self.active_checkpoint_id = None
active_after_command == None

apply_command_accepted(transition, command, payload, actor) ==
    /\ Len(history) < MaxHistory
    /\ heap' = [heap EXCEPT ![data] = dict_update(heap[data], payload)]
    /\ current_step' = transition.to_step
    /\ history' = Append(history,
            CommandApplied(event_from_step(transition), transition.to_step,
                           command, actor, payload, clock))
    /\ active_checkpoint_id' = active_after_command
    /\ call' = Call("apply_command", command, payload, actor, "", None)
    /\ UNCHANGED <<data, checkpoints>>

apply_command(command, payload, actor) ==
    LET transition == find_transition(definition, current_step, command) IN
    /\ pre' = Snapshot
    /\ IF transition = None
       THEN /\ apply_command_rejected(command, payload, actor)
            /\ UNCHANGED <<saved_at, trail>>
       ELSE /\ apply_command_accepted(definition.transitions[transition],
                                      command, payload, actor)
            /\ trail' = [trail EXCEPT !.applied = @ + 1,
                                      !.rolled_back = FALSE]
            /\ UNCHANGED saved_at
    /\ UNCHANGED <<definition, clock>>

-----------------------------------------------------------------------------
(* WorkflowInstance.save_checkpoint *)

\* The id of the first checkpoint is given again.
new_uuid_repeated ==
    IF checkpoints = << >> THEN Len(checkpoints) + 1 ELSE checkpoints[1].id

\* str(uuid.uuid4()): an id no checkpoint of the instance has yet.
new_uuid == Len(checkpoints) + 1

\* The checkpoint holds the live dict itself.
checkpoint_data_shared == data

\* copy.deepcopy(self.data): a dict of its own, at a new reference.
checkpoint_data == Len(heap) + 1

active_after_save_kept(cp) == active_checkpoint_id

\* self.active_checkpoint_id = cp.id
active_after_save(cp) == cp.id

\* A checkpoint is refused while another one is active.
save_checkpoint_when_live(label, actor, elapsed) ==
    LET now == clock + elapsed
        cp == Checkpoint(new_uuid, label, current_step, checkpoint_data, now)
    IN  /\ Len(history) < MaxHistory
        /\ pre' = Snapshot
        /\ IF active_checkpoint_id # None
           THEN /\ call' = Raised("save_checkpoint", "", "DomainException",
                                  "A checkpoint is already active.")
                /\ UNCHANGED <<current_step, data, heap, history,
                               checkpoints, active_checkpoint_id, trail,
                               clock, saved_at>>
           ELSE /\ clock' = now
                /\ heap' = Append(heap, heap[data])
                /\ checkpoints' = Append(checkpoints, cp)
                /\ active_checkpoint_id' = active_after_save(cp)
                /\ history' = Append(history, CheckpointSaved(cp, actor, now))
                /\ call' = Call("save_checkpoint", "", EmptyDict, actor,
                                label, cp)
                /\ saved_at' = Append(saved_at,
                                  [step |-> current_step, data |-> heap[data]])
                /\ trail' = [NoTrail EXCEPT !.saved = TRUE]
                /\ UNCHANGED <<current_step, data>>
        /\ UNCHANGED definition

save_checkpoint(label, actor, elapsed) ==
    LET now == clock + elapsed
        cp == Checkpoint(new_uuid, label, current_step, checkpoint_data, now)
    IN  /\ Len(history) < MaxHistory
        /\ clock' = now
        /\ pre' = Snapshot
        /\ heap' = Append(heap, heap[data])
        /\ checkpoints' = Append(checkpoints, cp)
        /\ active_checkpoint_id' = active_after_save(cp)
        /\ history' = Append(history, CheckpointSaved(cp, actor, now))
        /\ call' = Call("save_checkpoint", "", EmptyDict, actor, label, cp)
        /\ saved_at' = Append(saved_at,
                          [step |-> current_step, data |-> heap[data]])
        /\ trail' = [NoTrail EXCEPT !.saved = TRUE]
        /\ UNCHANGED <<definition, current_step, data>>

-----------------------------------------------------------------------------
(* WorkflowInstance._get_sorted_checkpoints: sorted() is stable *)

RECURSIVE sorted_by_created_at(_)
sorted_by_created_at(cps) ==
    IF cps = << >> THEN << >>
    ELSE LET init == sorted_by_created_at(SubSeq(cps, 1, Len(cps) - 1))
             cp == cps[Len(cps)]
         IN  SelectSeq(init, LAMBDA x : x.created_at <= cp.created_at)
                \o << cp >>
                \o SelectSeq(init, LAMBDA x : x.created_at > cp.created_at)

\* Sorted the other way round: the latest checkpoint first.
get_checkpoints_latest_first ==
    LET cps == sorted_by_created_at(checkpoints)
    IN  [i \in 1..Len(cps) |-> cps[Len(cps) + 1 - i]]

get_sorted_checkpoints == sorted_by_created_at(checkpoints)

\* [cp.id for cp in sorted_cps].index(id): the first position (from 0) that
\* holds id, -1 for the ValueError.
RECURSIVE index_from(_, _, _)
index_from(cps, i, id) ==
    IF i >= Len(cps) THEN -1
    ELSE IF At(cps, i).id = id THEN i
         ELSE index_from(cps, i + 1, id)

\* The search starts at the second position.
index_after_first(cps, id) == index_from(cps, 1, id)

index(cps, id) == index_from(cps, 0, id)

-----------------------------------------------------------------------------
(* WorkflowInstance.rollback *)

\* The data are left as they are; only the step and the id are restored.
rollback_data_kept(target) == heap[data]

\* copy.deepcopy(target_checkpoint.data)
rollback_data(target) == heap[target.data]

\* The history is cut back to the save of the target before the event is
\* appended.
rollback_restore_rewinding(target, actor) ==
    /\ Len(history) < MaxHistory
    /\ current_step' = target.step
    /\ heap' = Append(heap, heap[target.data])
    /\ data' = Len(heap) + 1
    /\ active_checkpoint_id' = target.id
    /\ history' = Append(
            SelectSeq(history, LAMBDA e : e.timestamp < target.created_at),
            StateRestored(target.id, actor, "rollback", clock))
    /\ call' = Call("rollback", "", EmptyDict, actor, "", None)
    /\ trail' = [NoTrail EXCEPT !.rolled_back = TRUE,
                                !.since_rollback = TRUE,
                                !.step = current_step,
                                !.data = heap[data],
                                !.active = active_checkpoint_id]
    /\ UNCHANGED checkpoints

\* self.data = target_checkpoint.data: the instance holds the dict of the
\* checkpoint.
rollback_restore_aliasing(target, actor) ==
    /\ Len(history) < MaxHistory
    /\ current_step' = target.step
    /\ data' = target.data
    /\ active_checkpoint_id' = target.id
    /\ history' = Append(history,
                         StateRestored(target.id, actor, "rollback", clock))
    /\ call' = Call("rollback", "", EmptyDict, actor, "", None)
    /\ trail' = [NoTrail EXCEPT !.rolled_back = TRUE,
                                !.since_rollback = TRUE,
                                !.step = current_step,
                                !.data = heap[data],
                                !.active = active_checkpoint_id]
    /\ UNCHANGED <<checkpoints, heap>>

\* The checkpoints made after the target are dropped.
rollback_restore_pruning(target, actor) ==
    /\ Len(history) < MaxHistory
    /\ current_step' = target.step
    /\ heap' = Append(heap, rollback_data(target))
    /\ data' = Len(heap) + 1
    /\ active_checkpoint_id' = target.id
    /\ history' = Append(history,
                         StateRestored(target.id, actor, "rollback", clock))
    /\ call' = Call("rollback", "", EmptyDict, actor, "", None)
    /\ trail' = [NoTrail EXCEPT !.rolled_back = TRUE,
                                !.since_rollback = TRUE,
                                !.step = current_step,
                                !.data = heap[data],
                                !.active = active_checkpoint_id]
    /\ checkpoints' = SelectSeq(checkpoints,
                           LAMBDA cp : cp.created_at <= target.created_at)

rollback_restore(target, actor) ==
    /\ Len(history) < MaxHistory
    /\ current_step' = target.step
    /\ heap' = Append(heap, rollback_data(target))
    /\ data' = Len(heap) + 1
    /\ active_checkpoint_id' = target.id
    /\ history' = Append(history,
                         StateRestored(target.id, actor, "rollback", clock))
    /\ call' = Call("rollback", "", EmptyDict, actor, "", None)
    /\ trail' = [NoTrail EXCEPT !.rolled_back = TRUE,
                                !.since_rollback = TRUE,
                                !.step = current_step,
                                !.data = heap[data],
                                !.active = active_checkpoint_id]
    /\ UNCHANGED checkpoints

\* A StateRestored event is appended before the check that raises.
raise_after_event(op, exception, message) ==
    /\ call' = Raised(op, "", exception, message)
    /\ history' = Append(history,
                         StateRestored(None, Actor(""), op, clock))
    /\ UNCHANGED <<current_step, data, heap, checkpoints,
                   active_checkpoint_id, trail>>

raise(op, exception, message) ==
    /\ call' = Raised(op, "", exception, message)
    /\ UNCHANGED <<current_step, data, heap, history, checkpoints,
                   active_checkpoint_id, trail>>

\* The check is left out: the index checks decide.
rollback_none_exist_unchecked(sorted_cps) == FALSE

\* if not sorted_cps
rollback_none_exist(sorted_cps) == sorted_cps = << >>

\* Off by one: the second checkpoint counts as the earliest too.
rollback_at_earliest_or_next(current_index) == current_index <= 1

\* if current_index == 0
rollback_at_earliest(current_index) == current_index = 0

\* From a checkpoint the target is that checkpoint again.
rollback_target_same(sorted_cps, current_index) ==
    IF current_index = Len(sorted_cps)
    THEN At(sorted_cps, current_index - 1)
    ELSE At(sorted_cps, current_index)

\* The target is always the earliest checkpoint.
rollback_target_earliest(sorted_cps, current_index) == At(sorted_cps, 0)

\* target_checkpoint = sorted_cps[current_index - 1]
rollback_target(sorted_cps, current_index) ==
    At(sorted_cps, current_index - 1)

\* The live state is taken to be on the last checkpoint.
rollback_live_index_on_last(sorted_cps) == Len(sorted_cps) - 1

\* current_index = len(sorted_cps): live is after the last checkpoint
rollback_live_index(sorted_cps) == Len(sorted_cps)

rollback(actor) ==
    LET sorted_cps == get_sorted_checkpoints
        current_index ==
            IF active_checkpoint_id # None
            THEN index(sorted_cps, active_checkpoint_id)
            ELSE rollback_live_index(sorted_cps)
    IN  /\ pre' = Snapshot
        /\ IF rollback_none_exist(sorted_cps)
           THEN raise("rollback", "NoAvailableCheckpoint",
                      "Cannot rollback: no checkpoints exist.")
           ELSE IF current_index = -1
           THEN raise("rollback", "DomainException",
                      "Active checkpoint ID not found.")
           ELSE IF rollback_at_earliest(current_index)
           THEN raise("rollback", "NoAvailableCheckpoint",
                      "Cannot rollback: already at the earliest checkpoint.")
           ELSE rollback_restore(rollback_target(sorted_cps, current_index),
                                 actor)
        /\ UNCHANGED <<definition, clock, saved_at>>

-----------------------------------------------------------------------------
(* WorkflowInstance.rollforward *)

\* Off by one: the checkpoint the instance is on.
rollforward_target_same(sorted_cps, current_index) ==
    At(sorted_cps, current_index)

\* target_checkpoint = sorted_cps[current_index + 1]
rollforward_target(sorted_cps, current_index) ==
    At(sorted_cps, current_index + 1)

\* The restore leaves no event in the history.
rollforward_restore_unrecorded(target, actor) ==
    /\ Len(history) < MaxHistory
    /\ current_step' = target.step
    /\ heap' = Append(heap, heap[target.data])
    /\ data' = Len(heap) + 1
    /\ active_checkpoint_id' = target.id
    /\ call' = Call("rollforward", "", EmptyDict, actor, "", None)
    /\ trail' = NoTrail
    /\ UNCHANGED <<checkpoints, history>>

rollforward_restore(target, actor) ==
    /\ Len(history) < MaxHistory
    /\ current_step' = target.step
    /\ heap' = Append(heap, heap[target.data])
    /\ data' = Len(heap) + 1
    /\ active_checkpoint_id' = target.id
    /\ history' = Append(history,
                         StateRestored(target.id, actor, "rollforward", clock))
    /\ call' = Call("rollforward", "", EmptyDict, actor, "", None)
    /\ trail' = NoTrail
    /\ UNCHANGED checkpoints

\* The live check made after the check for checkpoints.
rollforward_is_live_with_checkpoints ==
    active_checkpoint_id = None /\ checkpoints # << >>

\* if self.active_checkpoint_id is None
rollforward_is_live == active_checkpoint_id = None

rollforward(actor) ==
    LET sorted_cps == get_sorted_checkpoints
        current_index == index(sorted_cps, active_checkpoint_id)
    IN  /\ pre' = Snapshot
        /\ IF rollforward_is_live
           THEN raise("rollforward", "NoAvailableCheckpoint",
                "Cannot rollforward: current state is live, not at a checkpoint.")
           ELSE IF sorted_cps = << >>
           THEN raise("rollforward", "NoAvailableCheckpoint",
                      "Cannot rollforward: no checkpoints exist.")
           ELSE IF current_index = -1
           THEN raise("rollforward", "DomainException",
                      "Active checkpoint ID not found.")
           ELSE IF current_index >= Len(sorted_cps) - 1
           THEN raise("rollforward", "NoAvailableCheckpoint",
                      "Cannot rollforward: already at the latest checkpoint.")
           ELSE rollforward_restore(
                    rollforward_target(sorted_cps, current_index), actor)
        /\ UNCHANGED <<definition, clock, saved_at>>

-----------------------------------------------------------------------------
(* The construction of the instance, and the calls *)

\* No row in any table.
NoRows ==
    /\ agenda_items = << >>
    /\ action_items = << >>
    /\ external_requests = << >>
    /\ minutes = << >>
    /\ attendance_records = << >>

\* WorkflowInstance(definition=def, current_step=step, data=d, history=[],
\* checkpoints=[])
Constructed(def, step, d) ==
    /\ NoRows
    /\ definition = def
    /\ current_step = step
    /\ data = 1
    /\ heap = << d >>
    /\ history = << >>
    /\ checkpoints = << >>
    /\ active_checkpoint_id = None
    /\ clock = 0
    /\ call = Call("new", "", EmptyDict, Actor(""), "", None)
    /\ saved_at = << >>
    /\ trail = NoTrail
    /\ pre = [current_step |-> step, data |-> 1, heap |-> << d >>,
              history |-> << >>, checkpoints |-> << >>,
              active_checkpoint_id |-> None, trail |-> NoTrail]

Init ==
    \E inst \in Instances : Constructed(inst[1], inst[2], inst[3])

Next ==
    \/ \E command \in Commands, payload \in Payloads, actor \in Actors :
          apply_command(command, payload, actor) /\ UNCHANGED tables
    \/ \E label \in Labels, actor \in CheckpointActors, elapsed \in Elapsed :
          save_checkpoint(label, actor, elapsed) /\ UNCHANGED tables
    \/ \E actor \in CheckpointActors : rollback(actor) /\ UNCHANGED tables
    \/ \E actor \in CheckpointActors : rollforward(actor) /\ UNCHANGED tables

Spec == Init /\ [][Next]_vars

-----------------------------------------------------------------------------
(* Validation of a definition: is_valid called on definitions of every shape *)

CandidateSteps == { "first_request", "second_request" }

CandidateInitialSteps == { "", "first_request", "initial_request" }

CandidateTransitions ==
    { Transition("first_request", "second_request", "go", NoGuard),
      Transition("first_request", "first_request", "go", NoGuard),
      Transition("second_request", "elsewhere", "leave", NoGuard) }

Candidates ==
    { WorkflowDefinition("bad definition", initial_step, steps, transitions) :
        initial_step \in CandidateInitialSteps,
        steps \in SUBSET CandidateSteps,
        transitions \in UNION { [1..n -> CandidateTransitions] :
                                  n \in 0..MaxTransitions } }

\* definition.is_valid(), called once on the definition.
call_is_valid ==
    /\ call.op = "new"
    /\ call' = IF is_valid(definition) = Valid
               THEN Call("is_valid", "", EmptyDict, Actor(""), "", TRUE)
               ELSE Raised("is_valid", "", is_valid(definition).result,
                           is_valid(definition).message)
    /\ UNCHANGED <<definition, current_step, data, heap, history,
                   checkpoints, active_checkpoint_id, clock, pre, saved_at,
                   trail, tables>>

InitValidation ==
    \E def \in Candidates : Constructed(def, def.initial_step, EmptyDict)

NextValidation == call_is_valid

ValidationSpec == InitValidation /\ [][NextValidation]_vars

-----------------------------------------------------------------------------
(* The application's models: what is common to them *)

MaxClock == 3
MaxBulk == 2

\* The variables of the workflow instance, left alone by the models.
instance == <<definition, current_step, data, heap, history, checkpoints,
              active_checkpoint_id, saved_at, trail>>

\* Rows of other tables are known by their primary key: the users "user"
\* and "reviewer" of the fixtures, and the meeting.
Users == { 1, 2 }

Meetings == { 1 }

\* The tables as they are, kept in pre when a call begins.
Rows ==
    [agenda_items |-> agenda_items, action_items |-> action_items,
     external_requests |-> external_requests, minutes |-> minutes,
     attendance_records |-> attendance_records]

\* What is kept of a call of a method of a model: the method, the row it
\* was called on, and what it returned or raised.
Returned(op, pk, ret) ==
    [op |-> op, pk |-> pk, result |-> "ok", message |-> "", ret |-> ret,
     user |-> None, create_agenda_item |-> FALSE]

ValueError(op, pk, message) ==
    [op |-> op, pk |-> pk, result |-> "ValueError", message |-> message,
     ret |-> None]

\* raise ValueError(message): nothing was assigned and nothing saved.
raise_ValueError(op, pk, message) ==
    /\ call' = ValueError(op, pk, message)
    /\ UNCHANGED <<tables, clock>>

-----------------------------------------------------------------------------
(* AgendaItem *)

AgendaItem_STATUS_CHOICES ==
    { "draft", "submitted", "approved", "deferred", "withdrawn", "completed" }

\* A row as AgendaItem.objects.create(...) makes it.
AgendaItem(meeting, proposer, item_type, status) ==
    [meeting |-> meeting, proposer |-> proposer, item_type |-> item_type,
     status |-> status, submitted_at |-> None, reviewed_at |-> None,
     reviewed_by |-> None]

AgendaItem_can_submit(self) == self.status = "draft"

AgendaItem_can_approve(self) == self.status = "submitted"

\* Only a submitted item can be deferred.
AgendaItem_can_defer_submitted_only(self) == self.status = "submitted"

AgendaItem_can_defer(self) == self.status \in { "submitted", "approved" }

\* A deferred item can be withdrawn too.
AgendaItem_can_withdraw_deferred(self) ==
    self.status \in { "draft", "submitted", "deferred" }

AgendaItem_can_withdraw(self) == self.status \in { "draft", "submitted" }

\* self.save() of the row pk, changed to row, at the time now.
AgendaItem_save(op, pk, row, now) ==
    /\ now <= MaxClock
    /\ clock' = now
    /\ agenda_items' = [agenda_items EXCEPT ![pk] = row]
    /\ call' = Returned(op, pk, None)
    /\ UNCHANGED <<action_items, external_requests, minutes,
                   attendance_records>>

AgendaItem_submit(pk, user, elapsed) ==
    LET self == agenda_items[pk]
        now == clock + elapsed
    IN  /\ pre' = Rows
        /\ IF ~ AgendaItem_can_submit(self)
           THEN raise_ValueError("AgendaItem.submit", pk, "Cannot submit item")
           ELSE AgendaItem_save("AgendaItem.submit", pk,
                    [self EXCEPT !.status = "submitted",
                                 !.submitted_at = now], now)
        /\ UNCHANGED instance

AgendaItem_approve(pk, user, elapsed) ==
    LET self == agenda_items[pk]
        now == clock + elapsed
    IN  /\ pre' = Rows
        /\ IF ~ AgendaItem_can_approve(self)
           THEN raise_ValueError("AgendaItem.approve", pk,
                                 "Cannot approve item")
           ELSE AgendaItem_save("AgendaItem.approve", pk,
                    [self EXCEPT !.status = "approved",
                                 !.reviewed_at = now,
                                 !.reviewed_by = user], now)
        /\ UNCHANGED instance

AgendaItem_defer(pk, user, elapsed) ==
    LET self == agenda_items[pk]
        now == clock + elapsed
    IN  /\ pre' = Rows
        /\ IF ~ AgendaItem_can_defer(self)
           THEN raise_ValueError("AgendaItem.defer", pk, "Cannot defer item")
           ELSE AgendaItem_save("AgendaItem.defer", pk,
                    [self EXCEPT !.status = "deferred",
                                 !.reviewed_at = now,
                                 !.reviewed_by = user], now)
        /\ UNCHANGED instance

\* if user: self.reviewed_by = user
AgendaItem_withdraw(pk, user, elapsed) ==
    LET self == agenda_items[pk]
        now == clock + elapsed
    IN  /\ pre' = Rows
        /\ IF ~ AgendaItem_can_withdraw(self)
           THEN raise_ValueError("AgendaItem.withdraw", pk,
                                 "Cannot withdraw item")
           ELSE AgendaItem_save("AgendaItem.withdraw", pk,
                    [self EXCEPT !.status = "withdrawn",
                                 !.reviewed_at = now,
                                 !.reviewed_by =
                                     IF user # None THEN user ELSE @], now)
        /\ UNCHANGED instance

\* The rows of agenda_items, by primary key.
AgendaItem_objects == 1..Len(agenda_items)

\* The fixtures: an agenda item in any status.
AgendaItem_fixtures ==
    /\ \E status \in AgendaItem_STATUS_CHOICES :
           agenda_items = << AgendaItem(1, 1, "internal", status) >>
    /\ action_items = << >>
    /\ external_requests = << >>
    /\ minutes = << >>
    /\ attendance_records = << >>

-----------------------------------------------------------------------------
(* ActionItem *)

ActionItem_STATUS_CHOICES ==
    { "proposed", "assigned", "in_progress", "done", "rejected", "blocked" }

Notes == { "", "notes" }

\* A row as ActionItem.objects.create(...) makes it.
ActionItem(meeting, assigned_to, status) ==
    [meeting |-> meeting, status |-> status, assigned_to |-> assigned_to,
     assigned_by |-> None, completed_at |-> None, completion_notes |-> ""]

ActionItem_can_assign(self) == self.status = "proposed"

ActionItem_can_start(self) == self.status \in { "proposed", "assigned" }

\* An action that is done can be completed again.
ActionItem_can_complete_again(self) ==
    self.status \in { "assigned", "in_progress", "done" }

ActionItem_can_complete(self) == self.status \in { "assigned", "in_progress" }

ActionItem_can_reject(self) == self.status \in { "proposed", "assigned" }

\* self.save() of the row pk, changed to row, at the time now.
ActionItem_save(op, pk, row, now) ==
    /\ now <= MaxClock
    /\ clock' = now
    /\ action_items' = [action_items EXCEPT ![pk] = row]
    /\ call' = Returned(op, pk, None)
    /\ UNCHANGED <<agenda_items, external_requests, minutes,
                   attendance_records>>

\* if assigned_by: self.assigned_by = assigned_by
ActionItem_assign(pk, user, assigned_by) ==
    LET self == action_items[pk] IN
    /\ pre' = Rows
    /\ IF ~ ActionItem_can_assign(self)
       THEN raise_ValueError("ActionItem.assign", pk, "Cannot assign action")
       ELSE ActionItem_save("ActionItem.assign", pk,
                [self EXCEPT !.status = "assigned",
                             !.assigned_to = user,
                             !.assigned_by =
                                 IF assigned_by # None THEN assigned_by ELSE @],
                clock)
    /\ UNCHANGED instance

ActionItem_start(pk) ==
    LET self == action_items[pk] IN
    /\ pre' = Rows
    /\ IF ~ ActionItem_can_start(self)
       THEN raise_ValueError("ActionItem.start", pk, "Cannot start action")
       ELSE ActionItem_save("ActionItem.start", pk,
                [self EXCEPT !.status = "in_progress"], clock)
    /\ UNCHANGED instance

ActionItem_complete(pk, notes, elapsed) ==
    LET self == action_items[pk]
        now == clock + elapsed
    IN  /\ pre' = Rows
        /\ IF ~ ActionItem_can_complete(self)
           THEN raise_ValueError("ActionItem.complete", pk,
                                 "Cannot complete action")
           ELSE ActionItem_save("ActionItem.complete", pk,
                    [self EXCEPT !.status = "done",
                                 !.completed_at = now,
                                 !.completion_notes = notes], now)
        /\ UNCHANGED instance

ActionItem_reject(pk, notes) ==
    LET self == action_items[pk] IN
    /\ pre' = Rows
    /\ IF ~ ActionItem_can_reject(self)
       THEN raise_ValueError("ActionItem.reject", pk, "Cannot reject action")
       ELSE ActionItem_save("ActionItem.reject", pk,
                [self EXCEPT !.status = "rejected",
                             !.completion_notes = notes], clock)
    /\ UNCHANGED instance

\* The rows of action_items, by primary key.
ActionItem_objects == 1..Len(action_items)

\* The fixtures: an action item in any status.
ActionItem_fixtures ==
    /\ \E status \in ActionItem_STATUS_CHOICES :
           action_items = << ActionItem(1, 1, status) >>
    /\ agenda_items = << >>
    /\ external_requests = << >>
    /\ minutes = << >>
    /\ attendance_records = << >>

-----------------------------------------------------------------------------
(* ExternalRequest *)

ExternalRequest_STATUS_CHOICES ==
    { "pending", "approved", "rejected", "deferred", "withdrawn" }

\* A row as ExternalRequest.objects.create(...) makes it.
ExternalRequest(meeting, status) ==
    [meeting |-> meeting, status |-> status, reviewed_by |-> None,
     reviewed_at |-> None, review_notes |-> "", agenda_item |-> None]

\* An approved request can be approved again.
ExternalRequest_can_approve_again(self) ==
    self.status \in { "pending", "approved" }

ExternalRequest_can_approve(self) == self.status = "pending"

ExternalRequest_can_reject(self) == self.status = "pending"

ExternalRequest_can_defer(self) == self.status = "pending"

\* The item is created with the default status.
ExternalRequest_new_agenda_item_draft(self, reviewer) ==
    AgendaItem(self.meeting, reviewer, "external", "draft")

\* AgendaItem.objects.create(meeting=self.meeting, proposer=reviewer,
\* item_type='external', status='submitted', ...)
ExternalRequest_new_agenda_item(self, reviewer) ==
    AgendaItem(self.meeting, reviewer, "external", "submitted")

\* self.save() of the row pk, changed to row, at the time now.
ExternalRequest_save(op, pk, row, now) ==
    /\ now <= MaxClock
    /\ clock' = now
    /\ external_requests' = [external_requests EXCEPT ![pk] = row]
    /\ UNCHANGED <<action_items, minutes, attendance_records>>

\* if create_agenda_item and not self.agenda_item: the item is created and
\* linked; return self.agenda_item
ExternalRequest_approve(pk, reviewer, create_agenda_item, elapsed) ==
    LET self == external_requests[pk]
        now == clock + elapsed
        reviewed == [self EXCEPT !.status = "approved",
                                 !.reviewed_by = reviewer,
                                 !.reviewed_at = now]
        new_pk == Len(agenda_items) + 1
    IN  /\ pre' = Rows
        /\ IF ~ ExternalRequest_can_approve(self)
           THEN raise_ValueError("ExternalRequest.approve", pk,
                                 "Cannot approve request")
           ELSE IF create_agenda_item /\ self.agenda_item = None
           THEN /\ agenda_items' = Append(agenda_items,
                        ExternalRequest_new_agenda_item(self, reviewer))
                /\ ExternalRequest_save("ExternalRequest.approve", pk,
                        [reviewed EXCEPT !.agenda_item = new_pk], now)
                /\ call' = [Returned("ExternalRequest.approve", pk, new_pk)
                               EXCEPT !.create_agenda_item = create_agenda_item]
           ELSE /\ ExternalRequest_save("ExternalRequest.approve", pk,
                                        reviewed, now)
                /\ call' = [Returned("ExternalRequest.approve", pk,
                                     self.agenda_item)
                               EXCEPT !.create_agenda_item = create_agenda_item]
                /\ UNCHANGED agenda_items
        /\ UNCHANGED instance

ExternalRequest_reject(pk, reviewer, notes, elapsed) ==
    LET self == external_requests[pk]
        now == clock + elapsed
    IN  /\ pre' = Rows
        /\ IF ~ ExternalRequest_can_reject(self)
           THEN raise_ValueError("ExternalRequest.reject", pk,
                                 "Cannot reject request")
           ELSE /\ ExternalRequest_save("ExternalRequest.reject", pk,
                        [self EXCEPT !.status = "rejected",
                                     !.reviewed_by = reviewer,
                                     !.reviewed_at = now,
                                     !.review_notes = notes], now)
                /\ call' = Returned("ExternalRequest.reject", pk, None)
                /\ UNCHANGED agenda_items
        /\ UNCHANGED instance

ExternalRequest_defer(pk, reviewer, notes, elapsed) ==
    LET self == external_requests[pk]
        now == clock + elapsed
    IN  /\ pre' = Rows
        /\ IF ~ ExternalRequest_can_defer(self)
           THEN raise_ValueError("ExternalRequest.defer", pk,
                                 "Cannot defer request")
           ELSE /\ ExternalRequest_save("ExternalRequest.defer", pk,
                        [self EXCEPT !.status = "deferred",
                                     !.reviewed_by = reviewer,
                                     !.reviewed_at = now,
                                     !.review_notes = notes], now)
                /\ call' = Returned("ExternalRequest.defer", pk, None)
                /\ UNCHANGED agenda_items
        /\ UNCHANGED instance

\* if self.status not in ['pending', 'deferred']: raise ValueError
ExternalRequest_withdraw(pk) ==
    LET self == external_requests[pk] IN
    /\ pre' = Rows
    /\ IF ~ (self.status \in { "pending", "deferred" })
       THEN raise_ValueError("ExternalRequest.withdraw", pk,
                             "Cannot withdraw request")
       ELSE /\ ExternalRequest_save("ExternalRequest.withdraw", pk,
                    [self EXCEPT !.status = "withdrawn"], clock)
            /\ call' = Returned("ExternalRequest.withdraw", pk, None)
            /\ UNCHANGED agenda_items
    /\ UNCHANGED instance

\* The rows of external_requests, by primary key.
ExternalRequest_objects == 1..Len(external_requests)

\* The fixtures: an external request in any status, without an agenda item.
ExternalRequest_fixtures ==
    /\ \E status \in ExternalRequest_STATUS_CHOICES :
           external_requests = << ExternalRequest(1, status) >>
    /\ agenda_items = << >>
    /\ action_items = << >>
    /\ minutes = << >>
    /\ attendance_records = << >>

-----------------------------------------------------------------------------
(* Minute *)

\* A row as Minute.objects.create(...) makes it.
Minute(meeting, recorded_by, is_draft) ==
    [meeting |-> meeting, recorded_by |-> recorded_by, is_draft |-> is_draft,
     approved |-> FALSE, approved_by |-> None, approved_at |-> None]

\* self.approved = True; self.approved_by = user;
\* self.approved_at = timezone.now(); self.save()
Minute_approve(pk, user, elapsed) ==
    LET self == minutes[pk]
        now == clock + elapsed
    IN  /\ pre' = Rows
        /\ now <= MaxClock
        /\ clock' = now
        /\ minutes' = [minutes EXCEPT ![pk] =
                           [self EXCEPT !.approved = TRUE,
                                        !.approved_by = user,
                                        !.approved_at = now]]
        /\ call' = [Returned("Minute.approve", pk, None)
                       EXCEPT !.user = user]
        /\ UNCHANGED <<agenda_items, action_items, external_requests,
                       attendance_records>>
        /\ UNCHANGED instance

\* self.is_draft = False; self.save()
Minute_publish(pk) ==
    LET self == minutes[pk] IN
    /\ pre' = Rows
    /\ minutes' = [minutes EXCEPT ![pk] = [self EXCEPT !.is_draft = FALSE]]
    /\ call' = Returned("Minute.publish", pk, None)
    /\ UNCHANGED <<agenda_items, action_items, external_requests,
                   attendance_records, clock>>
    /\ UNCHANGED instance

\* The rows of minutes, by primary key.
Minute_objects == 1..Len(minutes)

\* The fixtures: a minute, draft or not, not approved.
Minute_fixtures ==
    /\ \E is_draft \in BOOLEAN : minutes = << Minute(1, 1, is_draft) >>
    /\ agenda_items = << >>
    /\ action_items = << >>
    /\ external_requests = << >>
    /\ attendance_records = << >>

-----------------------------------------------------------------------------
(* AttendanceRecord and AttendanceService *)

\* A row as AttendanceRecord.objects.create(meeting=, user=, **defaults)
\* makes it.
AttendanceRecord(meeting, user, defaults) ==
    [meeting |-> meeting, user |-> user, present |-> defaults.present,
     attendance_type |-> defaults.attendance_type, role |-> defaults.role,
     recorded_by |-> defaults.recorded_by, notes |-> defaults.notes,
     arrived_late |-> FALSE, arrival_time |-> None,
     left_early |-> FALSE, departure_time |-> None]

\* The positions of the rows of (meeting, user) in records.
AttendanceRecord_filter(records, meeting, user) ==
    { i \in 1..Len(records) :
        records[i].meeting = meeting /\ records[i].user = user }

\* A row is created whether or not the pair has one.
AttendanceRecord_always_create(records, meeting, user, defaults) ==
    Append(records, AttendanceRecord(meeting, user, defaults))

\* AttendanceRecord.objects.update_or_create(meeting=, user=, defaults=)
AttendanceRecord_update_or_create(records, meeting, user, defaults) ==
    LET found == AttendanceRecord_filter(records, meeting, user) IN
    IF found = {}
    THEN Append(records, AttendanceRecord(meeting, user, defaults))
    ELSE LET i == CHOOSE i \in found : TRUE IN
         [records EXCEPT ![i] =
             [f \in DOMAIN records[i] |->
                 IF f \in DOMAIN defaults THEN defaults[f]
                 ELSE records[i][f]]]

\* The table after AttendanceService.mark_attendance.
mark_attendance(records, meeting, user, present, type, role, by, notes) ==
    AttendanceRecord_update_or_create(records, meeting, user,
        [present |-> present, attendance_type |-> type,
         role |-> role, recorded_by |-> by, notes |-> notes])

\* The table after AttendanceService.mark_present.
mark_present(records, meeting, user, attendance_type, role, recorded_by) ==
    mark_attendance(records, meeting, user, TRUE, attendance_type, role,
                    recorded_by, "")

\* The table after AttendanceRecord.record_late_arrival on the row i.
record_late_arrival(records, i, arrival_time, now) ==
    [records EXCEPT ![i] =
        [@ EXCEPT !.arrived_late = TRUE,
                  !.arrival_time =
                      IF arrival_time # None THEN arrival_time ELSE now]]

\* The table after AttendanceRecord.record_early_departure on the row i.
record_early_departure(records, i, departure_time, now) ==
    [records EXCEPT ![i] =
        [@ EXCEPT !.left_early = TRUE,
                  !.departure_time =
                      IF departure_time # None THEN departure_time ELSE now]]

\* The table after the loop of AttendanceService.bulk_mark_attendance, from
\* the element i of attendance_data on: a dict without attendance_type, role
\* or notes leaves mark_attendance its defaults.
RECURSIVE bulk_from(_, _, _, _, _)
bulk_from(records, meeting, attendance_data, i, recorded_by) ==
    IF i > Len(attendance_data) THEN records
    ELSE bulk_from(
            mark_attendance(records, meeting, attendance_data[i].user,
                            attendance_data[i].present, "in_person",
                            "attendee", recorded_by, ""),
            meeting, attendance_data, i + 1, recorded_by)

\* What a call of AttendanceService leaves: the table, and the call.
AttendanceService_done(op, meeting, user, records) ==
    /\ attendance_records' = records
    /\ call' = Returned(op, <<meeting, user>>, None)
    /\ UNCHANGED <<agenda_items, action_items, external_requests, minutes,
                   clock>>

AttendanceService_mark_attendance(meeting, user, present, attendance_type) ==
    /\ pre' = Rows
    /\ AttendanceService_done("AttendanceService.mark_attendance",
            meeting, user,
            mark_attendance(attendance_records, meeting, user, present,
                            attendance_type, "attendee", None, ""))
    /\ UNCHANGED instance

AttendanceService_mark_present(meeting, user, attendance_type) ==
    /\ pre' = Rows
    /\ AttendanceService_done("AttendanceService.mark_present",
            meeting, user,
            mark_present(attendance_records, meeting, user, attendance_type,
                         "attendee", None))
    /\ UNCHANGED instance

\* attendance_type = 'excused' if is_excused else 'absent'
AttendanceService_mark_absent(meeting, user, is_excused) ==
    /\ pre' = Rows
    /\ AttendanceService_done("AttendanceService.mark_absent",
            meeting, user,
            mark_attendance(attendance_records, meeting, user, FALSE,
                            IF is_excused THEN "excused" ELSE "absent",
                            "attendee", None, ""))
    /\ UNCHANGED instance

\* except AttendanceRecord.DoesNotExist: the record is made by mark_present
\* and the late arrival recorded on it.
AttendanceService_record_late_arrival(meeting, user, arrival_time) ==
    LET found == AttendanceRecord_filter(attendance_records, meeting, user)
        marked == mark_present(attendance_records, meeting, user,
                               "in_person", "attendee", None)
    IN  /\ pre' = Rows
        /\ IF found # {}
           THEN AttendanceService_done(
                    "AttendanceService.record_late_arrival", meeting, user,
                    record_late_arrival(attendance_records,
                        CHOOSE i \in found : TRUE, arrival_time, clock))
           ELSE AttendanceService_done(
                    "AttendanceService.record_late_arrival", meeting, user,
                    record_late_arrival(marked,
                        CHOOSE i \in AttendanceRecord_filter(marked, meeting,
                                                             user) : TRUE,
                        arrival_time, clock))
        /\ UNCHANGED instance

\* except AttendanceRecord.DoesNotExist: raise ValueError
AttendanceService_record_early_departure(meeting, user, departure_time) ==
    LET found == AttendanceRecord_filter(attendance_records, meeting, user)
    IN  /\ pre' = Rows
        /\ IF found # {}
           THEN AttendanceService_done(
                    "AttendanceService.record_early_departure", meeting, user,
                    record_early_departure(attendance_records,
                        CHOOSE i \in found : TRUE, departure_time, clock))
           ELSE raise_ValueError(
                    "AttendanceService.record_early_departure",
                    <<meeting, user>>, "No attendance record found")
        /\ UNCHANGED instance

AttendanceService_bulk_mark_attendance(meeting, attendance_data) ==
    /\ pre' = Rows
    /\ AttendanceService_done("AttendanceService.bulk_mark_attendance",
            meeting, None,
            bulk_from(attendance_records, meeting, attendance_data, 1, None))
    /\ UNCHANGED instance

\* The lists given to bulk_mark_attendance: a user may be there twice.
AttendanceData ==
    UNION { [1..n -> [user : Users, present : {TRUE}]] : n \in 0..MaxBulk }

\* The times given for an arrival: none, or a time.
ArrivalTimes == { None, 2 }

\* The times given for a departure: none.
DepartureTimes == { None }

\* The fixtures: no record yet, or the record of the first user.
AttendanceRecord_fixtures ==
    /\ \/ attendance_records = << >>
       \/ attendance_records =
              << AttendanceRecord(1, 1,
                     [present |-> TRUE, attendance_type |-> "in_person",
                      role |-> "attendee", recorded_by |-> None,
                      notes |-> ""]) >>
    /\ agenda_items = << >>
    /\ action_items = << >>
    /\ external_requests = << >>
    /\ minutes = << >>

-----------------------------------------------------------------------------
(* The models, one fixture at a time *)

\* No call of a method of the workflow instance is made; the time is that
\* of the creation of the fixtures.
Created ==
    /\ definition = TEST_FLOW
    /\ current_step = TEST_FLOW.initial_step
    /\ data = 1
    /\ heap = << EmptyDict >>
    /\ history = << >>
    /\ checkpoints = << >>
    /\ active_checkpoint_id = None
    /\ saved_at = << >>
    /\ trail = NoTrail
    /\ clock = 1
    /\ call = Returned("create", None, None)

InitModels ==
    /\ Created
    /\ \/ AgendaItem_fixtures
       \/ ActionItem_fixtures
       \/ ExternalRequest_fixtures
       \/ Minute_fixtures
    /\ pre = Rows

NextModels ==
    \/ \E pk \in AgendaItem_objects, user \in Users \cup {None},
          elapsed \in Elapsed : AgendaItem_submit(pk, user, elapsed)
    \/ \E pk \in AgendaItem_objects, user \in Users, elapsed \in Elapsed :
          AgendaItem_approve(pk, user, elapsed)
    \/ \E pk \in AgendaItem_objects, user \in Users, elapsed \in Elapsed :
          AgendaItem_defer(pk, user, elapsed)
    \/ \E pk \in AgendaItem_objects, user \in Users \cup {None},
          elapsed \in Elapsed : AgendaItem_withdraw(pk, user, elapsed)
    \/ \E pk \in ActionItem_objects, user \in Users,
          assigned_by \in Users \cup {None} :
          ActionItem_assign(pk, user, assigned_by)
    \/ \E pk \in ActionItem_objects : ActionItem_start(pk)
    \/ \E pk \in ActionItem_objects, notes \in Notes, elapsed \in Elapsed :
          ActionItem_complete(pk, notes, elapsed)
    \/ \E pk \in ActionItem_objects, notes \in Notes :
          ActionItem_reject(pk, notes)
    \/ \E pk \in ExternalRequest_objects, reviewer \in Users,
          create_agenda_item \in BOOLEAN, elapsed \in Elapsed :
          ExternalRequest_approve(pk, reviewer, create_agenda_item, elapsed)
    \/ \E pk \in ExternalRequest_objects, reviewer \in Users, notes \in Notes,
          elapsed \in Elapsed :
          ExternalRequest_reject(pk, reviewer, notes, elapsed)
    \/ \E pk \in ExternalRequest_objects, reviewer \in Users, notes \in Notes,
          elapsed \in Elapsed :
          ExternalRequest_defer(pk, reviewer, notes, elapsed)
    \/ \E pk \in ExternalRequest_objects : ExternalRequest_withdraw(pk)
    \/ \E pk \in Minute_objects, user \in Users, elapsed \in Elapsed :
          Minute_approve(pk, user, elapsed)
    \/ \E pk \in Minute_objects : Minute_publish(pk)

ModelsSpec == InitModels /\ [][NextModels]_vars

-----------------------------------------------------------------------------
(* AttendanceService, called on the meeting of the fixtures *)

InitAttendance ==
    /\ Created
    /\ AttendanceRecord_fixtures
    /\ pre = Rows

NextAttendance ==
    \/ \E meeting \in Meetings, user \in Users, present \in BOOLEAN :
          AttendanceService_mark_attendance(meeting, user, present,
                                            "in_person")
    \/ \E meeting \in Meetings, user \in Users :
          AttendanceService_mark_present(meeting, user, "in_person")
    \/ \E meeting \in Meetings, user \in Users, is_excused \in BOOLEAN :
          AttendanceService_mark_absent(meeting, user, is_excused)
    \/ \E meeting \in Meetings, user \in Users, arrival_time \in ArrivalTimes :
          AttendanceService_record_late_arrival(meeting, user, arrival_time)
    \/ \E meeting \in Meetings, user \in Users,
          departure_time \in DepartureTimes :
          AttendanceService_record_early_departure(meeting, user,
                                                   departure_time)
    \/ \E meeting \in Meetings, attendance_data \in AttendanceData :
          AttendanceService_bulk_mark_attendance(meeting, attendance_data)

AttendanceSpec == InitAttendance /\ [][NextAttendance]_vars

-----------------------------------------------------------------------------
(* Properties of apply_command *)

\* The instance is as it was when the last call began.
InstanceUnchanged ==
    /\ current_step = pre.current_step
    /\ data = pre.data
    /\ heap = pre.heap
    /\ history = pre.history
    /\ checkpoints = pre.checkpoints
    /\ active_checkpoint_id = pre.active_checkpoint_id

Applied == call.op = "apply_command" /\ call.result = "ok"

\* The transitions declared for (step, command), by position.
Declared(step, command) ==
    { i \in 1..Len(definition.transitions) :
        /\ definition.transitions[i].from_step = step
        /\ definition.transitions[i].command = command }

\* The first of them in declaration order.
Matched(step, command) ==
    definition.transitions[
        CHOOSE i \in Declared(step, command) :
            \A j \in Declared(step, command) : i <= j ]

DataNow == heap[data]
DataBefore == pre.heap[pre.data]

\* C1: whenever apply_command fails, current_step, data, history, checkpoints
\* and active_checkpoint_id (and every dict they hold) are exactly what they
\* were before the call.
C1_FailedApplyChangesNothing ==
    (call.op = "apply_command" /\ call.result # "ok") => InstanceUnchanged

\* A rejected command on an instance that already has history, a checkpoint
\* and data.
C1_Witness ==
    /\ call.op = "apply_command" /\ call.result # "ok"
    /\ history # << >> /\ checkpoints # << >> /\ DataNow # EmptyDict

\* C2: apply_command raises DomainException exactly when the definition
\* declares no transition from the current step for the command, also when
\* the command is declared for another from_step; otherwise it succeeds.
C2_InvalidTransitionIff ==
    call.op = "apply_command" =>
        /\ call.result \in { "ok", "DomainException" }
        /\ call.result = "DomainException"
              <=> Declared(pre.current_step, call.command) = {}

\* A command the definition declares, rejected because it is declared for
\* another step only.
C2_Witness ==
    /\ call.op = "apply_command" /\ call.result = "DomainException"
    /\ \E i \in 1..Len(definition.transitions) :
          definition.transitions[i].command = call.command

\* C3: a successful apply_command moves to the to_step of the first declared
\* matching transition and appends exactly one CommandApplied event carrying
\* the step before the call, that to_step, and the command, actor and payload
\* passed in.
C3_AppliedStepAndEvent ==
    Applied =>
        LET t == Matched(pre.current_step, call.command)
            e == history[Len(history)]
        IN  /\ current_step = t.to_step
            /\ Len(history) = Len(pre.history) + 1
            /\ SubSeq(history, 1, Len(pre.history)) = pre.history
            /\ e.type = "CommandApplied"
            /\ e.from_step = pre.current_step
            /\ e.to_step = t.to_step
            /\ e.command = call.command
            /\ e.actor = call.actor
            /\ e.payload = call.payload

\* A command applied where two transitions are declared for it.
C3_Witness ==
    /\ Applied
    /\ Cardinality(Declared(pre.current_step, call.command)) > 1
    /\ pre.history # << >>

\* C4: after a successful apply_command the instance is live.
C4_AppliedIsLive == Applied => active_checkpoint_id = None

\* A command applied while a checkpoint was active.
C4_Witness == Applied /\ pre.active_checkpoint_id # None

\* C5: a successful apply_command leaves in data exactly the keys of the old
\* data and of the payload, each payload key with the payload's value and
\* each other key with its old value.
C5_ShallowMerge ==
    Applied =>
        /\ DOMAIN DataNow = DOMAIN DataBefore \cup DOMAIN call.payload
        /\ \A k \in DOMAIN call.payload : DataNow[k] = call.payload[k]
        /\ \A k \in DOMAIN DataBefore \ DOMAIN call.payload :
              DataNow[k] = DataBefore[k]

\* One call that overwrites a key, adds a key and keeps a key.
C5_Witness ==
    /\ Applied
    /\ \E k \in DOMAIN call.payload \cap DOMAIN DataBefore :
          DataBefore[k] # call.payload[k]
    /\ DOMAIN call.payload \ DOMAIN DataBefore # {}
    /\ DOMAIN DataBefore \ DOMAIN call.payload # {}

\* C6: when the matched transition has a guard and the guard is false for
\* (instance, payload, actor), apply_command fails with GuardFailed and the
\* instance is unchanged.
C6_GuardFalseRejects ==
    (/\ call.op = "apply_command"
     /\ Declared(pre.current_step, call.command) # {}
     /\ LET t == Matched(pre.current_step, call.command)
        IN  /\ t.guard # NoGuard
            /\ ~ guard_result(t.guard, pre, call.payload, call.actor))
    => (call.result = "GuardFailed" /\ InstanceUnchanged)

-----------------------------------------------------------------------------
(* Properties of the checkpoints *)

Saved == call.op = "save_checkpoint" /\ call.result = "ok"
RolledBack == call.op = "rollback" /\ call.result = "ok"

\* C7: after save_checkpoint returns cp, cp is the last element of
\* checkpoints, it is the active checkpoint, and the instance's step and
\* data are cp's.
C7_SavedIsActive ==
    Saved =>
        /\ Len(checkpoints) = Len(pre.checkpoints) + 1
        /\ checkpoints[Len(checkpoints)] = call.ret
        /\ active_checkpoint_id = call.ret.id
        /\ current_step = call.ret.step
        /\ DataNow = heap[call.ret.data]

\* A checkpoint saved right after another one, and one saved from live.
C7_Witness ==
    /\ Saved
    /\ pre.active_checkpoint_id # None
    /\ pre.history[Len(pre.history)].type = "CheckpointSaved"
    /\ \E i \in 1..Len(history) : history[i].type = "CommandApplied"

\* The step and data of the checkpoint saved last, as they were at the save.
LastSaved == saved_at[Len(saved_at)]

\* C8 as stated: save_checkpoint, then successful apply_commands (any number,
\* none included), then rollback: step and data are those of the save.
C8_RoundTripAnyLength ==
    (RolledBack /\ pre.trail.saved) =>
        /\ current_step = LastSaved.step
        /\ DataNow = LastSaved.data

\* C8 amended: save_checkpoint, then at least one successful apply_command,
\* then rollback: step and data are those of the save.
C8_RoundTrip ==
    (RolledBack /\ pre.trail.saved /\ pre.trail.applied >= 1) =>
        /\ current_step = LastSaved.step
        /\ DataNow = LastSaved.data

\* A rollback over two applied commands that undoes a step and a change of
\* the data, with an older checkpoint present.
C8_Witness ==
    /\ RolledBack /\ pre.trail.saved /\ pre.trail.applied >= 2
    /\ current_step # pre.current_step
    /\ DataNow # DataBefore
    /\ Len(checkpoints) >= 2

\* C9 as stated: where rollback succeeds, a rollforward right after it
\* succeeds and gives back the step, data and active checkpoint of before.
C9_BackAndForthAnywhere ==
    (call.op = "rollforward" /\ pre.trail.rolled_back) =>
        /\ call.result = "ok"
        /\ current_step = pre.trail.step
        /\ DataNow = pre.trail.data
        /\ active_checkpoint_id = pre.trail.active

\* C9 amended: from a state on a checkpoint where rollback succeeds, a
\* rollforward right after it succeeds and gives back the step, data and
\* active checkpoint of before.
C9_BackAndForth ==
    (/\ call.op = "rollforward"
     /\ pre.trail.rolled_back
     /\ pre.trail.active # None) =>
        /\ call.result = "ok"
        /\ current_step = pre.trail.step
        /\ DataNow = pre.trail.data
        /\ active_checkpoint_id = pre.trail.active

\* A rollback and rollforward between two checkpoints that differ in step
\* and data.
C9_Witness ==
    /\ call.op = "rollforward" /\ call.result = "ok"
    /\ pre.trail.rolled_back /\ pre.trail.active # None
    /\ current_step # pre.current_step
    /\ DataNow # DataBefore

\* C10: a checkpoint's step and data stay what they were when it was saved,
\* whatever is merged into the instance's data later, and no checkpoint holds
\* the dict the instance holds.
C10_CheckpointsKeepTheirData ==
    \A i \in 1..Len(checkpoints) :
        /\ checkpoints[i].step = saved_at[i].step
        /\ heap[checkpoints[i].data] = saved_at[i].data
        /\ checkpoints[i].data # data

\* A command merged into the data after a save, so that the data and the
\* checkpoint differ.
C10_Witness ==
    /\ Applied
    /\ pre.active_checkpoint_id # None
    /\ DataNow # heap[checkpoints[Len(checkpoints)].data]

-----------------------------------------------------------------------------
(* Properties of the history and of the instance's invariants *)

IsPrefix(s, t) == Len(s) <= Len(t) /\ SubSeq(t, 1, Len(s)) = s

\* C11: across every call, successful or failed, the history before the call
\* is a prefix of the history after it: no event is removed, reordered or
\* changed.
C11_HistoryAppendOnly == IsPrefix(pre.history, history)

\* A rollback, a rollforward and a failed call on a history of several
\* events.
C11_Witness ==
    /\ Len(history) >= 4
    /\ \E i \in 1..Len(history) :
          history[i].type = "StateRestored" /\ history[i].direction = "rollback"
    /\ \E i \in 1..Len(history) :
          history[i].type = "StateRestored"
              /\ history[i].direction = "rollforward"
    /\ call.result # "ok"

\* The instance was constructed on the initial step of its definition.
StartedOnInitialStep ==
    \E inst \in Instances :
        inst[1] = definition /\ inst[2] = definition.initial_step

\* C12: for a definition is_valid accepts and an instance started on its
\* initial step, current_step is a member of definition.steps after any
\* sequence of successful calls.
C12_StepIsDeclared ==
    (is_valid(definition) = Valid /\ StartedOnInitialStep)
        => current_step \in definition.steps

\* C13: whenever a checkpoint is active, the instance's step and data are
\* those stored in the checkpoint that active_checkpoint_id references.
C13_ActiveCheckpointIsCurrent ==
    active_checkpoint_id # None =>
        \E i \in 1..Len(checkpoints) :
            /\ checkpoints[i].id = active_checkpoint_id
            /\ current_step = checkpoints[i].step
            /\ DataNow = heap[checkpoints[i].data]

\* A checkpoint made active by a rollback that changed step and data.
C13_Witness ==
    /\ active_checkpoint_id # None
    /\ RolledBack
    /\ current_step # pre.current_step
    /\ DataNow # DataBefore

NotFound == "Active checkpoint ID not found."

\* C14: active_checkpoint_id is None or the id of a checkpoint in
\* checkpoints, and neither rollback nor rollforward ever raises
\* "Active checkpoint ID not found".
C14_ActiveIdIsKnown ==
    /\ \/ active_checkpoint_id = None
       \/ \E i \in 1..Len(checkpoints) :
             checkpoints[i].id = active_checkpoint_id
    /\ call.message # NotFound

\* A rollback and a rollforward that looked the active id up among several
\* checkpoints.
C14_Witness ==
    /\ call.op = "rollforward" /\ call.result = "ok"
    /\ pre.active_checkpoint_id # None
    /\ Len(checkpoints) >= 2
    /\ \E i \in 1..Len(history) : history[i].type = "CommandApplied"

-----------------------------------------------------------------------------
(* Properties of rollback and rollforward that fail *)

NoCheckpoints == "Cannot rollback: no checkpoints exist."
AtEarliest == "Cannot rollback: already at the earliest checkpoint."
IsLive == "Cannot rollforward: current state is live, not at a checkpoint."
AtLatest == "Cannot rollforward: already at the latest checkpoint."

\* cps[i] comes before cps[j] in created_at order (ties in insertion order).
Before(cps, i, j) ==
    \/ cps[i].created_at < cps[j].created_at
    \/ cps[i].created_at = cps[j].created_at /\ i < j

\* The first and the last checkpoint in created_at order.
Earliest(cps) ==
    cps[CHOOSE i \in 1..Len(cps) :
            \A j \in 1..Len(cps) \ {i} : Before(cps, i, j)]

Latest(cps) ==
    cps[CHOOSE i \in 1..Len(cps) :
            \A j \in 1..Len(cps) \ {i} : Before(cps, j, i)]

\* C15: rollback on an instance without checkpoints fails with
\* NoAvailableCheckpoint "no checkpoints exist", on whatever step and after
\* however many commands.
C15_RollbackWithoutCheckpoints ==
    (call.op = "rollback" /\ pre.checkpoints = << >>) =>
        /\ call.result = "NoAvailableCheckpoint"
        /\ call.message = NoCheckpoints

\* Such a rollback after two applied commands.
C15_Witness ==
    /\ call.op = "rollback" /\ pre.checkpoints = << >>
    /\ Len(history) >= 2
    /\ current_step # definition.initial_step

\* C16: with at least one checkpoint, rollback fails with "already at the
\* earliest checkpoint" exactly when the active checkpoint is the first in
\* created_at order, and succeeds in every other state.
C16_RollbackAtEarliestIff ==
    (call.op = "rollback" /\ pre.checkpoints # << >>) =>
        IF pre.active_checkpoint_id = Earliest(pre.checkpoints).id
        THEN call.result = "NoAvailableCheckpoint"
                /\ call.message = AtEarliest
        ELSE call.result = "ok"

\* A rollback refused on the earliest of several checkpoints, reached by
\* rolling back.
C16_Witness ==
    /\ call.op = "rollback" /\ call.message = AtEarliest
    /\ Len(checkpoints) >= 2
    /\ history[Len(history)].type = "StateRestored"

\* C17: rollforward fails with "current state is live" whenever no
\* checkpoint is active, however many checkpoints exist.
C17_RollforwardFromLive ==
    (call.op = "rollforward" /\ pre.active_checkpoint_id = None) =>
        /\ call.result = "NoAvailableCheckpoint"
        /\ call.message = IsLive

\* A rollforward refused after a rollback and a command, with a later
\* checkpoint still present.
C17_Witness ==
    /\ call.op = "rollforward" /\ call.message = IsLive
    /\ Len(checkpoints) >= 2
    /\ history[Len(history)].type = "CommandApplied"
    /\ history[Len(history) - 1].type = "StateRestored"

\* C18: rollforward fails with "already at the latest checkpoint" exactly
\* when the active checkpoint is the last in created_at order; it always
\* does right after a save_checkpoint.
C18_RollforwardAtLatestIff ==
    call.op = "rollforward" =>
        /\ call.message = AtLatest
              <=> /\ pre.active_checkpoint_id # None
                  /\ pre.checkpoints # << >>
                  /\ pre.active_checkpoint_id = Latest(pre.checkpoints).id
        /\ (/\ pre.history # << >>
            /\ pre.history[Len(pre.history)].type = "CheckpointSaved")
              => call.message = AtLatest

\* A rollforward refused right after the second save, the clock having
\* moved between the two saves.
C18_Witness ==
    /\ call.op = "rollforward" /\ call.message = AtLatest
    /\ Len(checkpoints) >= 2
    /\ history[Len(history)].type = "CheckpointSaved"
    /\ checkpoints[1].created_at < checkpoints[2].created_at

\* C19: a rollback or rollforward that fails leaves current_step, data,
\* history, checkpoints and active_checkpoint_id as they were; no event is
\* appended.
C19_FailedRestoreChangesNothing ==
    (call.op \in { "rollback", "rollforward" } /\ call.result # "ok")
        => InstanceUnchanged

\* A failed rollforward and a failed rollback on an instance with history,
\* checkpoints and data.
C19_Witness ==
    /\ call.op \in { "rollback", "rollforward" } /\ call.result # "ok"
    /\ Len(checkpoints) >= 2
    /\ \E i \in 1..Len(history) : history[i].type = "CommandApplied"

-----------------------------------------------------------------------------
(* Properties of is_valid *)

\* C20: is_valid raises WorkflowDefinitionValidationError for every
\* definition whose steps are empty, whose transitions are empty or whose
\* initial_step is not among its steps, and returns True for every other.
C20_ValidationRejects ==
    call.op = "is_valid" =>
        IF \/ definition.steps = {}
           \/ Len(definition.transitions) = 0
           \/ ~ (definition.initial_step \in definition.steps)
        THEN call.result = "WorkflowDefinitionValidationError"
        ELSE call.result = "ok" /\ call.ret = TRUE

\* A definition with steps and transitions rejected for its initial_step,
\* and nothing else.
C20_Witness ==
    /\ call.op = "is_valid"
    /\ call.result = "WorkflowDefinitionValidationError"
    /\ definition.steps = CandidateSteps
    /\ Len(definition.transitions) = 2
    /\ definition.initial_step = "initial_request"

\* The definition has passed is_valid.
Accepted == call.op = "is_valid" /\ call.result = "ok"

\* The definition has a transition that leaves or enters a step outside
\* its steps.
UndeclaredStep(def) ==
    \E i \in 1..Len(def.transitions) :
        \/ ~ (def.transitions[i].from_step \in def.steps)
        \/ ~ (def.transitions[i].to_step \in def.steps)

\* C21: is_valid raises WorkflowDefinitionValidationError for every
\* definition with a transition whose from_step or to_step is not in steps.
C21_ValidationRejectsUndeclaredSteps ==
    (call.op = "is_valid" /\ UndeclaredStep(definition))
        => call.result = "WorkflowDefinitionValidationError"

\* C22: a definition accepted by is_valid has at most one transition for
\* every (from_step, command) pair.
C22_AcceptedIsDeterministic ==
    Accepted =>
        \A i, j \in 1..Len(definition.transitions) :
            (/\ definition.transitions[i].from_step
                    = definition.transitions[j].from_step
             /\ definition.transitions[i].command
                    = definition.transitions[j].command)
                => definition.transitions[i] = definition.transitions[j]

-----------------------------------------------------------------------------
(* Properties of the history as a record of the calls *)

\* The type of the event a successful call of op appends.
EventOf(op) ==
    CASE op = "apply_command" -> "CommandApplied"
      [] op = "save_checkpoint" -> "CheckpointSaved"
      [] op = "rollback" -> "StateRestored"
      [] op = "rollforward" -> "StateRestored"

\* C23: the history is empty at construction; every successful call appends
\* exactly one event to it, CommandApplied for apply_command, CheckpointSaved
\* with the checkpoint made for save_checkpoint, StateRestored for rollback
\* and rollforward; a call that fails appends none.  So the history is the
\* events of the successful calls in their order.
C23_HistoryIsTheSuccessfulCalls ==
    IF call.op = "new"
    THEN history = << >>
    ELSE IF call.result = "ok"
    THEN /\ Len(history) = Len(pre.history) + 1
         /\ SubSeq(history, 1, Len(pre.history)) = pre.history
         /\ history[Len(history)].type = EventOf(call.op)
         /\ call.op = "save_checkpoint" =>
                /\ history[Len(history)].checkpoint = call.ret
                /\ checkpoints[Len(checkpoints)] = call.ret
         /\ call.op \in {"rollback", "rollforward"} =>
                /\ history[Len(history)].direction = call.op
                /\ history[Len(history)].checkpoint_id = active_checkpoint_id
    ELSE history = pre.history

\* All four operations have succeeded, and one has failed, in one history.
C23_Witness ==
    /\ call.op = "save_checkpoint" /\ call.result = "ok"
    /\ Len(history) = 5
    /\ history[1].type = "CheckpointSaved"
    /\ history[2].type = "CheckpointSaved"
    /\ history[3].type = "StateRestored" /\ history[3].direction = "rollback"
    /\ history[4].type = "StateRestored"
    /\ history[4].direction = "rollforward"
    /\ history[5].type = "CheckpointSaved"

\* A successful rollback has been followed by successful apply_commands
\* alone (t is the trail).
Diverged(t) == t.since_rollback /\ t.applied >= 1

\* C24: after a rollback followed by a successful apply_command, the instance
\* is live, every checkpoint ever saved is still in checkpoints, a
\* rollforward fails because the state is live, and a save_checkpoint
\* succeeds.
C24_DivergenceAfterRollback ==
    /\ (Applied /\ pre.trail.since_rollback) =>
            /\ active_checkpoint_id = None
            /\ checkpoints = pre.checkpoints
            /\ \A id \in 1..Len(saved_at) :
                   \E i \in 1..Len(checkpoints) : checkpoints[i].id = id
    /\ (call.op = "rollforward" /\ Diverged(pre.trail)) =>
            /\ call.result = "NoAvailableCheckpoint"
            /\ call.message = IsLive
    /\ (call.op = "save_checkpoint" /\ Diverged(pre.trail)) =>
            /\ call.result = "ok"
            /\ Len(checkpoints) = Len(pre.checkpoints) + 1
            /\ checkpoints[Len(checkpoints)] = call.ret

\* Two checkpoints, a rollback to the first, an apply_command, and a third
\* checkpoint saved while the second is still there.
C24_Witness ==
    /\ call.op = "save_checkpoint" /\ call.result = "ok"
    /\ Diverged(pre.trail)
    /\ Len(checkpoints) = 3
    /\ history[3].type = "StateRestored"
    /\ history[4].type = "CommandApplied"

\* A rollforward that failed after the divergence.
C24_RollforwardWitness ==
    /\ call.op = "rollforward" /\ Diverged(pre.trail)
    /\ Len(checkpoints) >= 2

-----------------------------------------------------------------------------
(* Properties of the status workflows of the models *)

\* The last call was op, which returned.
Succeeded(op) == call.op = op /\ call.result = "ok"

\* The last call was op, which raised ValueError and left every table as
\* it was.
Refused(op) ==
    /\ call.op = op
    /\ call.result = "ValueError"
    /\ Rows = pre

\* The last call was op on a row of table (now) that was in one of the
\* statuses from (then): it returned and the row is in status to.  From any
\* other status it raised ValueError and changed nothing.
OnlyFrom(op, then, now, from, to) ==
    call.op = op =>
        IF then[call.pk].status \in from
        THEN Succeeded(op) /\ now[call.pk].status = to
        ELSE Refused(op)

\* C25: AgendaItem.submit succeeds only from draft, approve only from
\* submitted, defer only from submitted or approved, withdraw only from draft
\* or submitted, each moving the item to its status; from any other status
\* the call raises ValueError and leaves the item unchanged.  Each can_*
\* says of the item as it was whether the call succeeded.
C25_AgendaItemWorkflow ==
    /\ OnlyFrom("AgendaItem.submit", pre.agenda_items, agenda_items,
                {"draft"}, "submitted")
    /\ OnlyFrom("AgendaItem.approve", pre.agenda_items, agenda_items,
                {"submitted"}, "approved")
    /\ OnlyFrom("AgendaItem.defer", pre.agenda_items, agenda_items,
                {"submitted", "approved"}, "deferred")
    /\ OnlyFrom("AgendaItem.withdraw", pre.agenda_items, agenda_items,
                {"draft", "submitted"}, "withdrawn")
    /\ call.op = "AgendaItem.submit" =>
           (call.result = "ok"
                <=> AgendaItem_can_submit(pre.agenda_items[call.pk]))
    /\ call.op = "AgendaItem.approve" =>
           (call.result = "ok"
                <=> AgendaItem_can_approve(pre.agenda_items[call.pk]))
    /\ call.op = "AgendaItem.defer" =>
           (call.result = "ok"
                <=> AgendaItem_can_defer(pre.agenda_items[call.pk]))
    /\ call.op = "AgendaItem.withdraw" =>
           (call.result = "ok"
                <=> AgendaItem_can_withdraw(pre.agenda_items[call.pk]))

\* An approved item has been deferred; it had been submitted and approved
\* before.
C25_Witness ==
    /\ Succeeded("AgendaItem.defer")
    /\ pre.agenda_items[call.pk].status = "approved"
    /\ agenda_items[call.pk].submitted_at # None
    /\ agenda_items[call.pk].reviewed_by # None

\* A deferred item whose withdrawal was refused.
C25_RefusedWitness ==
    /\ Refused("AgendaItem.withdraw")
    /\ agenda_items[call.pk].status = "deferred"
    /\ agenda_items[call.pk].reviewed_at # None

ActionItem_methods ==
    { "ActionItem.assign", "ActionItem.start", "ActionItem.complete",
      "ActionItem.reject" }

\* C26: ActionItem.assign succeeds only from proposed, start only from
\* proposed or assigned, complete only from assigned or in_progress (and
\* sets completed_at), reject only from proposed or assigned, each moving the
\* action to its status; from any other status the call raises ValueError
\* and leaves the action unchanged, so that none of them moves an action
\* out of done or rejected.
C26_ActionItemWorkflow ==
    /\ OnlyFrom("ActionItem.assign", pre.action_items, action_items,
                {"proposed"}, "assigned")
    /\ OnlyFrom("ActionItem.start", pre.action_items, action_items,
                {"proposed", "assigned"}, "in_progress")
    /\ OnlyFrom("ActionItem.complete", pre.action_items, action_items,
                {"assigned", "in_progress"}, "done")
    /\ OnlyFrom("ActionItem.reject", pre.action_items, action_items,
                {"proposed", "assigned"}, "rejected")
    /\ Succeeded("ActionItem.complete") =>
           action_items[call.pk].completed_at # None
    /\ (/\ call.op \in ActionItem_methods
        /\ pre.action_items[call.pk].status \in {"done", "rejected"}) =>
           /\ call.result = "ValueError"
           /\ action_items[call.pk] = pre.action_items[call.pk]

\* An action assigned, started and completed.
C26_Witness ==
    /\ Succeeded("ActionItem.complete")
    /\ pre.action_items[call.pk].status = "in_progress"
    /\ action_items[call.pk].assigned_by # None

\* A completed action that could not be completed, started or rejected
\* once more.
C26_TerminalWitness ==
    /\ call.op \in ActionItem_methods
    /\ call.result = "ValueError"
    /\ action_items[call.pk].status = "done"
    /\ action_items[call.pk].completed_at # None

C27_WithoutItemWitness ==
    /\ Succeeded("ExternalRequest.approve")
    /\ ~ call.create_agenda_item
    /\ external_requests[call.pk].reviewed_by # None

\* A deferred request withdrawn, and then refused a second withdrawal.
C27_WithdrawnWitness ==
    /\ Refused("ExternalRequest.withdraw")
    /\ external_requests[call.pk].status = "withdrawn"
    /\ external_requests[call.pk].reviewed_at # None

-----------------------------------------------------------------------------
(* Properties of Minute *)

\* C28: after Minute.approve(user) on a minute that was a draft and not
\* approved, approved is True, approved_by is the user, approved_at is set
\* and is_draft is False.
C28_ApprovedMinuteIsNotDraft ==
    (/\ Succeeded("Minute.approve")
     /\ pre.minutes[call.pk].is_draft
     /\ ~ pre.minutes[call.pk].approved) =>
        /\ minutes[call.pk].approved
        /\ minutes[call.pk].approved_by = call.user
        /\ minutes[call.pk].approved_at # None
        /\ ~ minutes[call.pk].is_draft

-----------------------------------------------------------------------------
(* Properties of AttendanceService *)

\* The last call was a call of one of ops.
CalledFor(ops) == call.op \in ops

\* The rows that (then) held for the pair the last call was about.
RecordsBefore ==
    AttendanceRecord_filter(pre.attendance_records, call.pk[1], call.pk[2])

\* The rows held now for that pair.
RecordsNow ==
    AttendanceRecord_filter(attendance_records, call.pk[1], call.pk[2])

MarkingMethods ==
    { "AttendanceService.mark_attendance", "AttendanceService.mark_present",
      "AttendanceService.mark_absent",
      "AttendanceService.record_late_arrival",
      "AttendanceService.record_early_departure" }

\* C29: whatever calls of AttendanceService were made, no two rows of
\* attendance_records are for the same (meeting, user); a call for a pair
\* that has a row changes that row and adds none.
C29_OneRecordPerPair ==
    /\ \A i, j \in 1..Len(attendance_records) :
           (/\ attendance_records[i].meeting = attendance_records[j].meeting
            /\ attendance_records[i].user = attendance_records[j].user)
               => i = j
    /\ (CalledFor(MarkingMethods) /\ RecordsBefore # {}) =>
           /\ Len(attendance_records) = Len(pre.attendance_records)
           /\ RecordsNow = RecordsBefore
    /\ CalledFor({"AttendanceService.mark_absent"}) =>
           \A i \in RecordsNow : ~ attendance_records[i].present
    /\ CalledFor({"AttendanceService.mark_present"}) =>
           \A i \in RecordsNow : attendance_records[i].present

\* A user marked present, then marked absent, while the other user has a
\* record too: two rows, and the row of the user is now absent.
C29_Witness ==
    /\ CalledFor({"AttendanceService.mark_absent"})
    /\ RecordsBefore # {}
    /\ \A i \in RecordsBefore : pre.attendance_records[i].present
    /\ \A i \in RecordsNow : ~ attendance_records[i].present
    /\ Len(attendance_records) = 2

\* C30: record_late_arrival and record_early_departure raise ValueError
\* when the (meeting, user) pair has no attendance record, and create none.
C30_NoRecordRaises ==
    (/\ CalledFor({"AttendanceService.record_late_arrival",
                   "AttendanceService.record_early_departure"})
     /\ RecordsBefore = {}) =>
        /\ call.result = "ValueError"
        /\ attendance_records = pre.attendance_records

\* The half of it that is about record_early_departure.
C30_EarlyDepartureRaises ==
    (/\ CalledFor({"AttendanceService.record_early_departure"})
     /\ RecordsBefore = {}) =>
        /\ call.result = "ValueError"
        /\ attendance_records = pre.attendance_records

-----------------------------------------------------------------------------
(* Properties of the checkpoint a restore goes to *)

RolledForward == call.op = "rollforward" /\ call.result = "ok"

\* The number of checkpoints of cps that come before cps[i] in created_at
\* order: its index in that order, from 0.
Rank(cps, i) == Cardinality({ j \in 1..Len(cps) : Before(cps, j, i) })

\* The index in created_at order of the checkpoint of cps known by id, and
\* the checkpoint of cps at the index k of that order.
IndexOf(cps, id) ==
    Rank(cps, CHOOSE i \in 1..Len(cps) : cps[i].id = id)

InOrder(cps, k) == cps[CHOOSE i \in 1..Len(cps) : Rank(cps, i) = k]

\* The instance has just been restored to target, a checkpoint it had when
\* the call began.
RestoredTo(target, direction) ==
    /\ current_step = target.step
    /\ DataNow = pre.heap[target.data]
    /\ active_checkpoint_id = target.id
    /\ history[Len(history)].type = "StateRestored"
    /\ history[Len(history)].checkpoint_id = target.id
    /\ history[Len(history)].direction = direction

\* C31: a successful rollback from the active checkpoint at index i of the
\* created_at order restores the checkpoint at index i - 1, a successful
\* rollforward the one at index i + 1: step, data and active_checkpoint_id
\* are the target's and the StateRestored event appended has its id and the
\* direction.  The created_at order is the order in which the checkpoints
\* were saved.
C31_RestoreGoesToNeighbour ==
    /\ (RolledBack /\ pre.active_checkpoint_id # None) =>
           RestoredTo(
               InOrder(pre.checkpoints,
                   IndexOf(pre.checkpoints, pre.active_checkpoint_id) - 1),
               "rollback")
    /\ RolledForward =>
           RestoredTo(
               InOrder(pre.checkpoints,
                   IndexOf(pre.checkpoints, pre.active_checkpoint_id) + 1),
               "rollforward")
    /\ \A i, j \in 1..Len(checkpoints) :
           i < j => Before(checkpoints, i, j)

\* A rollforward that changed the step: from the first of two checkpoints,
\* saved on different steps, to the second.
C31_Witness ==
    /\ RolledForward
    /\ current_step # pre.current_step
    /\ IndexOf(pre.checkpoints, pre.active_checkpoint_id) = 0
    /\ active_checkpoint_id = 2

\* A rollback from the third checkpoint to the second.
C31_RollbackWitness ==
    /\ RolledBack
    /\ pre.active_checkpoint_id = 3
    /\ active_checkpoint_id = 2

\* C32: rollback from a live state with at least one checkpoint succeeds and
\* restores the checkpoint that is last in created_at order, which becomes
\* active; after a divergence too, where that is the checkpoint made last
\* and not the one the instance was rolled back to.
C32_RollbackFromLive ==
    (/\ call.op = "rollback"
     /\ pre.active_checkpoint_id = None
     /\ pre.checkpoints # << >>) =>
        /\ call.result = "ok"
        /\ RestoredTo(Latest(pre.checkpoints), "rollback")
        /\ Latest(pre.checkpoints) = pre.checkpoints[Len(pre.checkpoints)]

\* Two checkpoints, a rollback to the first, an apply_command, and a rollback
\* that goes to the second.
C32_Witness ==
    /\ RolledBack
    /\ Diverged(pre.trail)
    /\ history[3].type = "StateRestored" /\ history[3].checkpoint_id = 1
    /\ active_checkpoint_id = 2

\* The last thing that succeeded before the last call was a restore.
WasRestored ==
    /\ pre.history # << >>
    /\ pre.history[Len(pre.history)].type = "StateRestored"

\* C33: an apply_command that succeeds after a rollback or rollforward has
\* restored checkpoint c changes the data of the instance and not the data
\* of c, and every restore of a checkpoint sets the step and the data that
\* were saved in it, the second time as the first.
C33_RestoreClones ==
    /\ (Applied /\ WasRestored) =>
           \A i \in 1..Len(checkpoints) :
               checkpoints[i].id = pre.active_checkpoint_id =>
                   /\ checkpoints[i].data # data
                   /\ heap[checkpoints[i].data] = pre.heap[checkpoints[i].data]
                   /\ heap[checkpoints[i].data] = DataBefore
    /\ (RolledBack \/ RolledForward) =>
           /\ current_step = saved_at[active_checkpoint_id].step
           /\ DataNow = saved_at[active_checkpoint_id].data

\* A checkpoint restored, a command applied that changed the data, and the
\* checkpoint restored a second time.
C33_Witness ==
    /\ RolledBack
    /\ Len(history) = 5
    /\ history[3].type = "StateRestored"
    /\ history[3].checkpoint_id = active_checkpoint_id
    /\ history[4].type = "CommandApplied"
    /\ DataNow # DataBefore

-----------------------------------------------------------------------------
(* Properties of what history refers to *)

\* C34: every checkpoint_id of a StateRestored event in history is the id
\* of a checkpoint in checkpoints, and every checkpoint of a
\* CheckpointSaved event is in checkpoints.
C34_EventsReferToCheckpoints ==
    \A e \in 1..Len(history) :
        /\ history[e].type = "StateRestored" =>
               \E i \in 1..Len(checkpoints) :
                   checkpoints[i].id = history[e].checkpoint_id
        /\ history[e].type = "CheckpointSaved" =>
               \E i \in 1..Len(checkpoints) :
                   checkpoints[i] = history[e].checkpoint

\* A history with the saving of two checkpoints and restores in both
\* directions.
C34_Witness ==
    /\ Len(checkpoints) = 2
    /\ \E e \in 1..Len(history) :
           /\ history[e].type = "StateRestored"
           /\ history[e].direction = "rollback"
    /\ \E e \in 1..Len(history) :
           /\ history[e].type = "StateRestored"
           /\ history[e].direction = "rollforward"

-----------------------------------------------------------------------------
(* Properties of find_transition *)

\* The steps a transition can be looked up from: those of the definition,
\* those its transitions name, and one that nothing names.
LookupSteps ==
    definition.steps
        \cup { definition.transitions[i].from_step :
                 i \in 1..Len(definition.transitions) }
        \cup { definition.transitions[i].to_step :
                 i \in 1..Len(definition.transitions) }
        \cup { "elsewhere" }

\* C35: find_transition(step, command) returns the first transition in
\* declaration order whose from_step is step and whose command is command,
\* and None exactly when no such transition is declared; where several
\* transitions share (from_step, command), apply_command uses the first.
C35_FindTransitionFirstMatch ==
    /\ \A step \in LookupSteps, command \in Commands :
           LET found == find_transition(definition, step, command) IN
           /\ found = None <=> Declared(step, command) = {}
           /\ found # None =>
                  /\ found \in Declared(step, command)
                  /\ \A j \in Declared(step, command) : found <= j
    /\ Applied =>
           LET found == find_transition(definition, pre.current_step,
                                        call.command)
               e == history[Len(history)]
           IN  /\ found # None
               /\ \A j \in Declared(pre.current_step, call.command) :
                      found <= j
               /\ current_step = definition.transitions[found].to_step
               /\ e.to_step = definition.transitions[found].to_step

\* A command applied where the two transitions declared for it lead to
\* different steps.
C35_Witness ==
    /\ Applied
    /\ \E i, j \in Declared(pre.current_step, call.command) :
           /\ i < j
           /\ definition.transitions[i].to_step
                  # definition.transitions[j].to_step
           /\ current_step = definition.transitions[i].to_step
    /\ \E step \in LookupSteps, command \in Commands :
           find_transition(definition, step, command) = None

-----------------------------------------------------------------------------
(* Properties of the list of checkpoints *)

\* The checkpoints there were before the call are still there, in place,
\* with their id, label, step, data and created_at.
CheckpointsKept ==
    /\ Len(checkpoints) >= Len(pre.checkpoints)
    /\ \A i \in 1..Len(pre.checkpoints) :
           /\ checkpoints[i] = pre.checkpoints[i]
           /\ heap[checkpoints[i].data] = pre.heap[pre.checkpoints[i].data]

\* C36: checkpoints is append-only: apply_command, rollback and
\* rollforward, successful or failed, leave it unchanged, and
\* save_checkpoint appends exactly one checkpoint whose id no other
\* checkpoint has, leaving every existing checkpoint as it was.
C36_CheckpointsAppendOnly ==
    /\ call.op \in { "apply_command", "rollback", "rollforward" } =>
           /\ Len(checkpoints) = Len(pre.checkpoints)
           /\ CheckpointsKept
    /\ call.op = "save_checkpoint" =>
           /\ Len(checkpoints) = Len(pre.checkpoints) + 1
           /\ CheckpointsKept
           /\ \A i \in 1..Len(pre.checkpoints) :
                  pre.checkpoints[i].id # checkpoints[Len(checkpoints)].id
    /\ \A i, j \in 1..Len(checkpoints) :
           checkpoints[i].id = checkpoints[j].id => i = j

\* A checkpoint saved after a rollback, with the checkpoints that were
\* ahead of the restored one still in the list.
C36_Witness ==
    /\ call.op = "save_checkpoint"
    /\ Len(checkpoints) = 3
    /\ pre.trail.rolled_back
    /\ pre.active_checkpoint_id = checkpoints[1].id

-----------------------------------------------------------------------------
(* Properties of save_checkpoint *)

\* C37: save_checkpoint never fails, whatever state it is called in, and
\* leaves current_step and data as they were; of the instance it changes
\* only checkpoints, active_checkpoint_id and history.
C37_SaveNeverFails ==
    /\ Len(history) < MaxHistory =>
           \A label \in Labels, actor \in CheckpointActors :
               ENABLED save_checkpoint(label, actor, 0)
    /\ call.op = "save_checkpoint" =>
           /\ call.result = "ok"
           /\ current_step = pre.current_step
           /\ data = pre.data
           /\ DataNow = DataBefore
           /\ checkpoints # pre.checkpoints
           /\ active_checkpoint_id # pre.active_checkpoint_id
           /\ history # pre.history

\* A checkpoint saved while another one, restored by a rollback, was
\* active, on an instance that has left its initial step with data.
C37_Witness ==
    /\ call.op = "save_checkpoint"
    /\ pre.active_checkpoint_id # None
    /\ pre.trail.rolled_back
    /\ DataNow # EmptyDict
    /\ current_step # definition.initial_step

-----------------------------------------------------------------------------
(* Properties of repeated rollback and rollforward *)

\* How many restores in the direction d history ends with: the successful
\* calls of a run of rollbacks (or rollforwards) that no command and no
\* save_checkpoint has interrupted.
RECURSIVE TrailingRestores(_, _)
TrailingRestores(h, d) ==
    IF h = << >> THEN 0
    ELSE IF h[Len(h)].type = "StateRestored" /\ h[Len(h)].direction = d
    THEN 1 + TrailingRestores(SubSeq(h, 1, Len(h) - 1), d)
    ELSE 0

\* Where the instance stands among the checkpoints cps: on the index of the
\* active checkpoint in created_at order, after the last one when live.
Position(cps, active) ==
    IF active = None THEN Len(cps) ELSE IndexOf(cps, active)

\* The runs are bounded: a run of k rollbacks has come down from a position
\* of at most n, a run of k rollforwards has come up from 0 at least.
RunsBounded ==
    /\ (active_checkpoint_id # None
            /\ TrailingRestores(history, "rollback") > 0) =>
           TrailingRestores(history, "rollback")
               + Position(checkpoints, active_checkpoint_id)
                   <= Len(checkpoints)
    /\ (active_checkpoint_id # None
            /\ TrailingRestores(history, "rollforward") > 0) =>
           /\ TrailingRestores(history, "rollforward")
                  <= Position(checkpoints, active_checkpoint_id)
           /\ TrailingRestores(history, "rollforward")
                  <= Len(checkpoints) - 1
    /\ RolledBack =>
           Position(checkpoints, active_checkpoint_id)
               = Position(pre.checkpoints, pre.active_checkpoint_id) - 1
    /\ RolledForward =>
           Position(checkpoints, active_checkpoint_id)
               = Position(pre.checkpoints, pre.active_checkpoint_id) + 1

\* C38 as stated: the runs are bounded, and from any state the rollback
\* that fails, fails with "already at earliest" and the earliest checkpoint
\* active, the rollforward that fails, with "already at latest" and the
\* latest checkpoint active.
C38_NavigationEndsOnCheckpoint ==
    /\ RunsBounded
    /\ (call.op = "rollback" /\ call.result # "ok") =>
           /\ call.message = AtEarliest
           /\ checkpoints # << >>
           /\ active_checkpoint_id = Earliest(checkpoints).id
    /\ (call.op = "rollforward" /\ call.result # "ok") =>
           /\ call.message = AtLatest
           /\ checkpoints # << >>
           /\ active_checkpoint_id = Latest(checkpoints).id

\* C38 amended: bounded navigation.  With n checkpoints, a run of rollbacks
\* succeeds at most n times (n from a live state, the index of the active
\* checkpoint from a checkpoint) and then fails with "already at earliest"
\* and the earliest checkpoint active, or at once with "no checkpoints
\* exist" when n = 0; a run of rollforwards from a checkpoint succeeds at
\* most n - 1 times and then fails with "already at latest" and the latest
\* checkpoint active, and from a live state fails at once with "current
\* state is live", the state staying live.
C38_BoundedNavigation ==
    /\ RunsBounded
    /\ (call.op = "rollback" /\ call.result # "ok") =>
           /\ call.result = "NoAvailableCheckpoint"
           /\ InstanceUnchanged
           /\ IF checkpoints = << >>
              THEN call.message = NoCheckpoints
              ELSE /\ call.message = AtEarliest
                   /\ active_checkpoint_id = Earliest(checkpoints).id
    /\ (call.op = "rollforward" /\ call.result # "ok") =>
           /\ call.result = "NoAvailableCheckpoint"
           /\ InstanceUnchanged
           /\ IF active_checkpoint_id = None
              THEN call.message = IsLive
              ELSE /\ call.message = AtLatest
                   /\ active_checkpoint_id = Latest(checkpoints).id

\* From a live state with two checkpoints, two rollbacks have succeeded and
\* the third has failed.
C38_Witness ==
    /\ call.op = "rollback" /\ call.result # "ok"
    /\ Len(checkpoints) = 2
    /\ TrailingRestores(history, "rollback") = 2
    /\ history[Len(history) - 2].type = "CommandApplied"

\* From the earliest of two checkpoints, one rollforward has succeeded and
\* the second has failed.
C38_RollforwardWitness ==
    /\ call.op = "rollforward" /\ call.result # "ok"
    /\ Len(checkpoints) = 2
    /\ TrailingRestores(history, "rollforward") = 1
    /\ call.message = AtLatest

-----------------------------------------------------------------------------
(* Properties of the statuses over any sequence of calls *)

AgendaItem_methods ==
    { "AgendaItem.submit", "AgendaItem.approve", "AgendaItem.defer",
      "AgendaItem.withdraw" }

ExternalRequest_methods ==
    { "ExternalRequest.approve", "ExternalRequest.reject",
      "ExternalRequest.defer", "ExternalRequest.withdraw" }

\* The last call raised ValueError and left every table as it was.
RefusedCall == call.result = "ValueError" /\ Rows = pre

\* C39: under submit, approve, defer and withdraw, every call on a deferred
\* or withdrawn AgendaItem raises ValueError, no call brings an item to
\* completed, and no call brings an item back to draft.
C39_AgendaItemTerminalStatuses ==
    CalledFor(AgendaItem_methods) =>
        LET was == pre.agenda_items[call.pk].status
            is == agenda_items[call.pk].status
        IN  /\ was \in { "deferred", "withdrawn" } => RefusedCall
            /\ is = "completed" => was = "completed"
            /\ is = "draft" => was = "draft"
            /\ is = "draft" => RefusedCall

\* An item that calls have brought to deferred, and a call on it refused.
C39_Witness ==
    /\ CalledFor(AgendaItem_methods)
    /\ pre.agenda_items[call.pk].status = "deferred"
    /\ agenda_items[call.pk].reviewed_by # None
    /\ call.result = "ValueError"

\* An item that calls have brought to withdrawn, and a call on it refused.
C39_WithdrawnWitness ==
    /\ CalledFor(AgendaItem_methods)
    /\ pre.agenda_items[call.pk].status = "withdrawn"
    /\ agenda_items[call.pk].submitted_at # None
    /\ call.result = "ValueError"

\* C40: for an ExternalRequest that starts pending without an agenda item,
\* under approve, reject, defer and withdraw: at most one AgendaItem is ever
\* created for it, agenda_item is set only while the status is approved,
\* every call on an approved, rejected or withdrawn request raises
\* ValueError, and no call brings the request back to pending.
C40_ExternalRequestOneItem ==
    /\ external_requests # << >> =>
           Len(agenda_items) <= Len(external_requests)
    /\ \A pk \in ExternalRequest_objects :
           external_requests[pk].agenda_item # None =>
               /\ external_requests[pk].status = "approved"
               /\ external_requests[pk].agenda_item \in AgendaItem_objects
    /\ \A pk \in AgendaItem_objects :
           agenda_items[pk].item_type = "external" =>
               \E r \in ExternalRequest_objects :
                   external_requests[r].agenda_item = pk
    /\ CalledFor(ExternalRequest_methods) =>
           LET was == pre.external_requests[call.pk].status
               is == external_requests[call.pk].status
           IN  /\ was \in { "approved", "rejected", "withdrawn" } =>
                      RefusedCall
               /\ is = "pending" => was = "pending"
               /\ is = "pending" => RefusedCall

\* A request approved with its agenda item created, and a second approve
\* that asks for an item refused.
C40_Witness ==
    /\ call.op = "ExternalRequest.approve"
    /\ call.result = "ValueError"
    /\ pre.external_requests[call.pk].agenda_item # None
    /\ Len(agenda_items) = 1

====
